---- MODULE Spec2Model ----
(***************************************************************************)
(* Samurai Sudoku generator: five overlapping boards on one canvas, the    *)
(* composed solution builder (dlx9.solve_random per board), the counting   *)
(* backtracker (solver.solve_unique) and the hole digger with its retry    *)
(* policy (generator.generate_samurai).                                    *)
(*                                                                         *)
(* The model is parametric in the box side Box.  A board is Box*Box cells  *)
(* wide, holds the digits 1..Box*Box, and the centre board shares one box  *)
(* with each corner board.  With Box = 3 every definition below is the     *)
(* program's (9x9 boards at 0, 6 and 12 on a 21x21 canvas, 369 active      *)
(* cells); the checks run at Box = 2 (4x4 boards at 0, 2 and 4 on an 8x8   *)
(* canvas).  At Box = 2 the five boards cover the whole canvas.            *)
(*                                                                         *)
(* Python's None is modelled as 0, as dlx9 itself does for an empty cell.  *)
(* Rows, columns and digits are 0-based where the source is 0-based.       *)
(***************************************************************************)
EXTENDS Integers, Sequences, FiniteSets, TLC

\* ------------------------------------------------------------------ bounds
\* Side of a box (the program: 3).
Box == 2
\* States of the random source passed in that the calls start from: 0 .. NumSeeds-1.
NumSeeds == 1
\* States of the module-level generator that the calls start from: 0 .. NumOrders-1.
NumOrders == 1
\* States of the random source that solve_random, called alone, starts from.
NumSolveSeeds == 8
\* The random source: a linear congruential generator s -> (s*RngA + RngC) % RngM.
RngM == 251
RngA == 33
RngC == 7
\* Wall-clock ticks one uniqueness check may take: 1..MaxElapsed.
MaxElapsed == 2
\* Checks of a dig pass that may take more than one tick: its first MaxLate.
MaxLate == 1
\* solve_unique called alone: the longest run of holes, the largest limit and
\* the number of states of the module-level generator.
MaxRun == 12
MaxLimit == 3
NumShuffles == 2
\* solve_unique's search takes at most 2^StepBits steps.
StepBits == 14
\* The states of the random source _dig_holes_to_target is called with.
NumDigSeeds == 2
\* find_next_cell is called on grids with up to MaxKept cells filled.
MaxKept == 3
\* The count of completions takes at most 2^CountBits steps.
CountBits == 16

\* --------------------------------------------------------------- geometry
\* Side of a board and number of digits (the program: 9).
N == Box * Box
\* geometry.BOARD_SIZE (the program: 21).
BOARD_SIZE == Box * (3 * Box - 2)
None == 0
Digits == 1 .. N
Idx == 0 .. (N - 1)

\* geometry.BOARDS: (name, r0, c0).
BOARDS ==
    << <<"TL", 0, 0>>,
       <<"TR", 0, 2 * (N - Box)>>,
       <<"C", N - Box, N - Box>>,
       <<"BL", 2 * (N - Box), 0>>,
       <<"BR", 2 * (N - Box), 2 * (N - Box)>> >>

in_board(r, c, r0, c0) == r0 <= r /\ r < r0 + N /\ c0 <= c /\ c < c0 + N

is_active_cell(r, c) ==
    \E i \in 1 .. Len(BOARDS) : in_board(r, c, BOARDS[i][2], BOARDS[i][3])

\* The comprehension of active_cells() runs r, then c, ascending: row-major.
\* RowMajor(lo, hi) is the part of the list that the positions lo .. hi give.
RECURSIVE RowMajor(_, _)
RowMajor(lo, hi) ==
    IF lo > hi THEN << >>
    ELSE IF lo = hi
    THEN (IF is_active_cell(lo \div BOARD_SIZE, lo % BOARD_SIZE)
          THEN << <<lo \div BOARD_SIZE, lo % BOARD_SIZE>> >>
          ELSE << >>)
    ELSE RowMajor(lo, (lo + hi) \div 2) \o RowMajor((lo + hi) \div 2 + 1, hi)

active_cells == RowMajor(0, BOARD_SIZE * BOARD_SIZE - 1)

\* The origins <<r0, c0>> of the boards that cover (r, c), in BOARDS order.
boards_covering_cell(r, c) ==
    SelectSeq([i \in 1 .. Len(BOARDS) |-> <<BOARDS[i][2], BOARDS[i][3]>>],
              LAMBDA b : in_board(r, c, b[1], b[2]))

subgrid_index(r, c, r0, c0) == <<(r - r0) \div Box, (c - c0) \div Box>>

\* ------------------------------------------------------------- grid model
Canvas == 0 .. (BOARD_SIZE - 1)

\* model.empty_samurai_grid: every cell None.
empty_samurai_grid == [r \in Canvas |-> [c \in Canvas |-> None]]

\* The cells whose values model.candidates and model.is_valid_assignment read
\* for (r, c) in the board at (r0, c0): its row, its column and its box.
UnitCells(r, c, r0, c0) ==
    LET br == subgrid_index(r, c, r0, c0)[1]
        bc == subgrid_index(r, c, r0, c0)[2]
    IN  {<<r, c0 + cc>> : cc \in Idx}
        \cup {<<r0 + rr, c>> : rr \in Idx}
        \cup {<<r0 + rr, c0 + cc>> :
                rr \in (br * Box) .. (br * Box + Box - 1),
                cc \in (bc * Box) .. (bc * Box + Box - 1)}

\* The same over every board covering (r, c), tabulated once per cell.
ReadCells ==
    [r \in Canvas |-> [c \in Canvas |->
        LET bs == boards_covering_cell(r, c)
        IN  UNION {UnitCells(r, c, bs[i][1], bs[i][2]) : i \in 1 .. Len(bs)}]]

DigitSeq == [d \in 1 .. N |-> d]

\* model.candidates: the digits not used in the row, column and box of
\* (r, c) in any board covering it, ascending.
candidates(g, r, c) ==
    LET used == {g[p[1]][p[2]] : p \in ReadCells[r][c]}
    IN  SelectSeq(DigitSeq, LAMBDA d : d \notin used)

\* model.is_valid_assignment: v occurs nowhere else in the row, column and
\* box of (r, c) in any board covering it.
is_valid_assignment(g, r, c, v) ==
    \A p \in ReadCells[r][c] : p # <<r, c>> => g[p[1]][p[2]] # v

\* ---------------------------------------------------------- random source
\* random.Random is modelled by its state, a number in 0 .. RngM-1.
RngStates == 0 .. (RngM - 1)
RngNext(s) == (s * RngA + RngC) % RngM

\* _randbelow(n): advance the source, return a value in 0 .. n-1.
RandBelow(s, n) == [v |-> (RngNext(s) \div 3) % n, s |-> RngNext(s)]

Swap(x, i, j) == [x EXCEPT ![i] = x[j], ![j] = x[i]]

\* random.shuffle(x): for i in reversed(range(1, len(x))): j = randbelow(i+1);
\* x[i], x[j] = x[j], x[i].  Positions are 1-based here.
\* One turn of the loop, rb being what randbelow(i+1) gave.
ShuffleSwap(x, rb, i) == [x |-> Swap(x, i + 1, rb.v + 1), s |-> rb.s]

ShuffleAt(x, s, i) == ShuffleSwap(x, RandBelow(s, i + 1), i)

\* The turns i = hi down to lo of the loop, the upper half and then the lower.
RECURSIVE ShuffleFrom(_, _, _, _)
ShuffleRest(upper, hi, lo) == ShuffleFrom(upper.x, upper.s, hi, lo)

ShuffleFrom(x, s, hi, lo) ==
    IF Len(x) < 2 \/ hi < lo THEN [x |-> x, s |-> s]
    ELSE IF hi = lo THEN ShuffleAt(x, s, hi)
    ELSE ShuffleRest(ShuffleFrom(x, s, hi, (hi + lo) \div 2 + 1),
                     (hi + lo) \div 2, lo)

Shuffle(x, s) == ShuffleFrom(x, s, Len(x) - 1, 1)

\* random.sample(range(1, N+1), N): pool = list(population); for i in range(k):
\* j = randbelow(n - i); result[i] = pool[j]; pool[j] = pool[n - i - 1].
RECURSIVE SampleFrom(_, _, _, _)
SampleFrom(pool, s, i, acc) ==
    IF i = Len(pool) THEN [x |-> acc, s |-> s]
    ELSE LET n == Len(pool)
             rb == RandBelow(s, n - i)
         IN  SampleFrom([pool EXCEPT ![rb.v + 1] = pool[n - i]], rb.s, i + 1,
                        Append(acc, pool[rb.v + 1]))

SampleDigits(s) == SampleFrom([i \in 1 .. N |-> i], s, 0, << >>)

SetMin(S) == CHOOSE x \in S : \A y \in S : x <= y

\* ------------------------------------------------------ solver.solve_unique
NoCell == [found |-> FALSE, r |-> 0, c |-> 0, cand |-> << >>]

\* The positions in active_cells of the empty cells of g.
EmptyAt(g) ==
    {i \in 1 .. Len(active_cells) : g[active_cells[i][1]][active_cells[i][2]] = None}

CandidatesAt(g, i) == candidates(g, active_cells[i][1], active_cells[i][2])

\* A scan that takes the first empty cell, whatever its candidates.
first_empty_cell(g) ==
    IF EmptyAt(g) = {} THEN NoCell
    ELSE [found |-> TRUE, r |-> active_cells[SetMin(EmptyAt(g))][1],
          c |-> active_cells[SetMin(EmptyAt(g))][2],
          cand |-> CandidatesAt(g, SetMin(EmptyAt(g)))]

\* solver.find_next_cell.  The loop scans the active cells in order.  It
\* returns None at an empty cell without candidates and breaks at an empty
\* cell with one candidate, whichever comes first; when neither exists it
\* ends with the first of the cells with the fewest candidates (best is
\* replaced only by a strictly shorter list).
find_next_cell(g) ==
    LET empty == EmptyAt(g)
        stops == {i \in empty : Len(CandidatesAt(g, i)) <= 1}
        fewest == SetMin({Len(CandidatesAt(g, i)) : i \in empty})
        pick == IF stops # {} THEN SetMin(stops)
                ELSE SetMin({i \in empty : Len(CandidatesAt(g, i)) = fewest})
        cand == CandidatesAt(g, pick)
    IN  IF empty = {} THEN NoCell
        ELSE IF Len(cand) = 0 THEN NoCell
        ELSE [found |-> TRUE, r |-> active_cells[pick][1],
              c |-> active_cells[pick][2], cand |-> cand]

\* solve_unique.backtrack, run as a machine M: g the grid worked on in place,
\* count the solutions counted, s the state of the module-level random
\* generator that shuffles the candidates, limit the argument
\* limit_solutions, stack the frames of the calls of backtrack in progress
\* (r, c, cand as shuffled, k the candidates of the loop already taken),
\* at the place the innermost call is at, ret the value the call that has
\* just returned gave, halted whether the outermost call has returned.
StartMachine(g, limit_solutions, s) ==
    [g |-> g, count |-> 0, s |-> s, limit |-> limit_solutions, stack |-> << >>,
     at |-> "call", ret |-> FALSE, halted |-> FALSE]

Top(M) == M.stack[Len(M.stack)]
Pop(M) == SubSeq(M.stack, 1, Len(M.stack) - 1)

\* Lines 40-42: the candidates are shuffled (sh) and the loop is entered.
EnterLoop(M, nxt, sh) ==
    [M EXCEPT !.s = sh.s, !.at = "loop",
              !.stack = Append(@, [r |-> nxt.r, c |-> nxt.c, cand |-> sh.x, k |-> 0])]

\* Lines 32-41, nxt being find_next_cell's answer.
OnCallAt(M, nxt) ==
    IF ~nxt.found
    THEN IF EmptyAt(M.g) # {}
         THEN [M EXCEPT !.at = "return", !.ret = FALSE]
         ELSE [M EXCEPT !.count = @ + 1, !.at = "return",
                        !.ret = (M.count + 1 >= M.limit)]
    ELSE EnterLoop(M, nxt, Shuffle(nxt.cand, M.s))

\* Lines 31-41: a call of backtrack up to its loop.
OnCall(M) == OnCallAt(M, find_next_cell(M.g))

\* Lines 42-44 and 48, f being the frame of the call: the loop takes its next
\* candidate and calls backtrack when the candidate is valid; with none left
\* the call returns False.
OnLoopAt(M, f) ==
    IF f.k = Len(f.cand)
    THEN [M EXCEPT !.stack = Pop(M), !.at = "return", !.ret = FALSE]
    ELSE IF is_valid_assignment(M.g, f.r, f.c, f.cand[f.k + 1])
    THEN [M EXCEPT !.g[f.r][f.c] = f.cand[f.k + 1],
                   !.stack[Len(M.stack)].k = f.k + 1, !.at = "call"]
    ELSE [M EXCEPT !.stack[Len(M.stack)].k = f.k + 1]

OnLoop(M) == OnLoopAt(M, Top(M))

\* The outermost call returns and nothing is tried after it.
stop_at_return(M) == [M EXCEPT !.halted = TRUE]

\* A return that empties the cell of the caller's loop whatever was returned.
undo_on_every_return(M) ==
    IF M.stack = << >> THEN [M EXCEPT !.halted = TRUE]
    ELSE IF M.ret
    THEN [M EXCEPT !.g[Top(M).r][Top(M).c] = None, !.stack = Pop(M)]
    ELSE [M EXCEPT !.g[Top(M).r][Top(M).c] = None, !.at = "loop"]

\* Lines 45-47 and 50: a call has returned ret to its caller's loop: True is
\* passed on at once, the cell left as it is; after False the cell is
\* emptied and the loop goes on.  The outermost call returns to line 50.
OnReturn(M) ==
    IF M.stack = << >> THEN [M EXCEPT !.halted = TRUE]
    ELSE IF M.ret THEN [M EXCEPT !.stack = Pop(M)]
    ELSE [M EXCEPT !.g[Top(M).r][Top(M).c] = None, !.at = "loop"]

BacktrackStep(M) ==
    CASE M.at = "call" -> OnCall(M)
      [] M.at = "loop" -> OnLoop(M)
      [] M.at = "return" -> OnReturn(M)

\* Up to 2^k steps of the machine, or as many as it takes to halt.
RECURSIVE Run(_, _)
Run(M, k) ==
    IF M.halted THEN M
    ELSE IF k = 0 THEN BacktrackStep(M)
    ELSE Run(Run(M, k - 1), k - 1)

\* Line 51.  A search that 2^StepBits steps do not finish has no result.
SolveResult(M) ==
    IF M.halted
    THEN [has |-> M.count > 0, nsol |-> M.count, g |-> M.g, s |-> M.s]
    ELSE CHOOSE unfinished \in {} : TRUE

\* A check that answers at the first completion found.
first_completion(g, limit_solutions, s) ==
    SolveResult(Run(StartMachine(g, 1, s), StepBits))

\* solver.solve_unique(g, limit_solutions) with the module-level generator in
\* state s: has = (count > 0), nsol = count; g and s are the grid and the
\* generator as the call leaves them.
solve_unique(g, limit_solutions, s) ==
    SolveResult(Run(StartMachine(g, limit_solutions, s), StepBits))

\* ------------------------------------------------------- dlx9.solve_random
\* Exact-cover columns: row-digit, column-digit, box-digit and cell, N*N each
\* (the program: 81 each, 324 in all); candidate rows (r, c, d), d 0-based.
NumCols == 4 * N * N
NumRows == N * N * N
\* The row taken for the box.
row_for_box(r, c) == r

_box_index(r, c) == (r \div Box) * Box + (c \div Box)

_col_ids_for_candidate(r, c, d) ==
    << r * N + d,
       N * N + c * N + d,
       2 * N * N + _box_index(r, c) * N + d,
       3 * N * N + r * N + c >>

row_id(r, c, d) == (r * N + c) * N + d
RidR(rid) == (rid \div N) \div N
RidC(rid) == (rid \div N) % N
RidD(rid) == rid % N

cols_for_row(rid) == _col_ids_for_candidate(RidR(rid), RidC(rid), RidD(rid))
ColsOf(rid) == {cols_for_row(rid)[k] : k \in 1 .. 4}

\* rows_for_col as first built: every candidate row under each of its columns.
InitialRowsForCol ==
    [col \in 0 .. (NumCols - 1) |-> {rid \in 0 .. (NumRows - 1) : col \in ColsOf(rid)}]

\* The matrix state: m.rows_for_col, m.active_rows, m.active_cols.
InitialMatrix ==
    [rows_for_col |-> InitialRowsForCol,
     active_rows |-> 0 .. (NumRows - 1),
     active_cols |-> 0 .. (NumCols - 1)]

\* solve_random.cover(col): every row under col that is still active leaves
\* active_rows and the row sets of its columns that are active; then col
\* leaves active_cols.
cover(m, col) ==
    LET gone == m.rows_for_col[col] \cap m.active_rows
    IN  [rows_for_col |->
            [cc \in 0 .. (NumCols - 1) |->
                IF cc \in m.active_cols
                THEN m.rows_for_col[cc] \ {rid \in gone : cc \in ColsOf(rid)}
                ELSE m.rows_for_col[cc]],
         active_rows |-> m.active_rows \ gone,
         active_cols |-> m.active_cols \ {col}]

\* for col in cols_for_row[rid]: cover(col)
RECURSIVE CoverFrom(_, _, _)
CoverFrom(m, rid, k) ==
    IF k > 4 THEN m ELSE CoverFrom(cover(m, cols_for_row(rid)[k]), rid, k + 1)

CoverRow(m, rid) == CoverFrom(m, rid, 1)

\* "Apply givens": each given (gr, gc, gd) covers the columns of its row.
RECURSIVE ApplyGivens(_, _, _)
ApplyGivens(m, givens, k) ==
    IF k > Len(givens) THEN m
    ELSE ApplyGivens(CoverRow(m, row_id(givens[k][1], givens[k][2], givens[k][3])),
                     givens, k + 1)

GivenRids(givens) ==
    [k \in 1 .. Len(givens) |-> row_id(givens[k][1], givens[k][2], givens[k][3])]

SeqRange(x) == {x[k] : k \in 1 .. Len(x)}

\* The rebuild after the givens: each row set keeps the rows that are active
\* or belong to a given.
Rebuild(m, solution_rids) ==
    [m EXCEPT !.rows_for_col =
        [cc \in 0 .. (NumCols - 1) |->
            {rid \in m.rows_for_col[cc] :
                rid \in m.active_rows \/ rid \in SeqRange(solution_rids)}]]

\* The matrix as the main loop finds it.
MatrixAfterGivens(givens) ==
    Rebuild(ApplyGivens(InitialMatrix, givens, 1), GivenRids(givens))

RECURSIVE SetToSeq(_)
SetToSeq(S) == IF S = {} THEN << >> ELSE <<SetMin(S)>> \o SetToSeq(S \ {SetMin(S)})

\* solve_random.choose_col: scan the active columns (ascending, as CPython
\* iterates a set of small ints); take the first column with strictly fewer
\* rows than the best so far and stop at one with at most one row.
\* -1 stands for None (no active column).
choose_col(m) ==
    LET len(col) == Cardinality(m.rows_for_col[col])
        low == {col \in m.active_cols : len(col) <= 1}
        least == {col \in m.active_cols : \A o \in m.active_cols : len(col) <= len(o)}
    IN  IF m.active_cols = {} THEN -1
        ELSE IF low # {} THEN SetMin(low)
        ELSE SetMin(least)

\* "Decode solution rows": board[r][c] = d + 1 for each rid, in order.
RECURSIVE DecodeFrom(_, _, _)
DecodeFrom(board, solution, k) ==
    IF k > Len(solution) THEN board
    ELSE DecodeFrom([board EXCEPT ![RidR(solution[k])][RidC(solution[k])] =
                                     RidD(solution[k]) + 1],
                    solution, k + 1)

EmptyBoard == [r \in Idx |-> [c \in Idx |-> 0]]
Decode(solution) == DecodeFrom(EmptyBoard, solution, 1)


\* --------------------------------------------------- dlx9._solve_from_scratch
\* The state of the fill: the digit sets of the rows, columns and boxes, the
\* board, and the random source s.
EmptyFill(s) ==
    [rows |-> [k \in Idx |-> {}], cols |-> [k \in Idx |-> {}],
     boxs |-> [k \in Idx |-> {}], board |-> EmptyBoard, s |-> s]

Place(f, r, c, v) ==
    LET b == (r \div Box) * Box + (c \div Box)
    IN  [f EXCEPT !.rows[r] = @ \cup {v}, !.cols[c] = @ \cup {v},
                  !.boxs[b] = @ \cup {v}, !.board[r][c] = v]

Unplace(f, r, c, v) ==
    LET b == (r \div Box) * Box + (c \div Box)
    IN  [f EXCEPT !.rows[r] = @ \ {v}, !.cols[c] = @ \ {v},
                  !.boxs[b] = @ \ {v}, !.board[r][c] = 0]

RECURSIVE PlaceGivens(_, _, _)
PlaceGivens(f, givens, k) ==
    IF k > Len(givens) THEN f
    ELSE PlaceGivens(Place(f, givens[k][1], givens[k][2], givens[k][3] + 1),
                     givens, k + 1)

\* cells: the cells the givens left at 0, row-major.
RECURSIVE ZeroCellsFrom(_, _)
ZeroCellsFrom(board, k) ==
    IF k = N * N THEN << >>
    ELSE (IF board[k \div N][k % N] = 0 THEN << <<k \div N, k % N>> >> ELSE << >>)
         \o ZeroCellsFrom(board, k + 1)

\* _solve_from_scratch.backtrack(i), i 1-based: a fresh sample of the digits
\* at every visit, filtered by the three sets; place, recurse, undo.
RECURSIVE scratch_backtrack(_, _, _)
RECURSIVE ScratchTry(_, _, _, _, _)
scratch_backtrack(f, cells, i) ==
    IF i > Len(cells) THEN [ok |-> TRUE, f |-> f]
    ELSE LET r == cells[i][1]
             c == cells[i][2]
             b == (r \div Box) * Box + (c \div Box)
             smp == SampleDigits(f.s)
             cand == SelectSeq(smp.x, LAMBDA v : v \notin f.rows[r]
                                               /\ v \notin f.cols[c]
                                               /\ v \notin f.boxs[b])
         IN  ScratchTry([f EXCEPT !.s = smp.s], cells, i, cand, 1)

ScratchTry(f, cells, i, cand, k) ==
    IF k > Len(cand) THEN [ok |-> FALSE, f |-> f]
    ELSE LET r == cells[i][1]
             c == cells[i][2]
             res == scratch_backtrack(Place(f, r, c, cand[k]), cells, i + 1)
         IN  IF res.ok THEN res
             ELSE ScratchTry(Unplace(res.f, r, c, cand[k]), cells, i, cand, k + 1)

\* _solve_from_scratch(rng, givens): ok is the value the assertion tests.
_solve_from_scratch(s, givens) ==
    LET f0 == PlaceGivens(EmptyFill(s), givens, 1)
        res == scratch_backtrack(f0, ZeroCellsFrom(f0.board, 0), 1)
    IN  [ok |-> res.ok, board |-> res.f.board, s |-> res.f.s]

\* ------------------------------------------------------ generator: compose
DIFFICULTY_NAMES == <<"easy", "medium", "hard", "evil">>
ClueEasy == 170
ClueMedium == 140
ClueHard == 110
ClueEvil == 80
FallbackClues == 210
TargetStep == 10
MaxAttempts == 3
\* The clue counts are counts out of the program's 369 active cells
\* (5 boards of 81 cells, 4 shared boxes of 9); on a smaller canvas they are
\* taken in proportion.  With Box = 3 Scaled(n) = n.
ProgramActive == 5 * 81 - 4 * 9
Scaled(n) == (n * Len(active_cells)) \div ProgramActive

DIFFICULTY_CLUES(d) ==
    CASE d = "easy" -> Scaled(ClueEasy)
      [] d = "medium" -> Scaled(ClueMedium)
      [] d = "hard" -> Scaled(ClueHard)
      [] d = "evil" -> Scaled(ClueEvil)

\* generator._extract_overlap_givens: m[corner] = the box origin inside the
\* centre board, pos[corner] = the box origin inside the corner board.
OverlapInCenter(corner) ==
    CASE corner = "TL" -> <<0, 0>>
      [] corner = "TR" -> <<0, N - Box>>
      [] corner = "BL" -> <<N - Box, 0>>
      [] corner = "BR" -> <<N - Box, N - Box>>

\* The box of the corner board at the place the shared box has in the centre.
OverlapAsInCenter(corner) == OverlapInCenter(corner)

OverlapInCorner(corner) ==
    CASE corner = "TL" -> <<N - Box, N - Box>>
      [] corner = "TR" -> <<N - Box, 0>>
      [] corner = "BL" -> <<0, N - Box>>
      [] corner = "BR" -> <<0, 0>>

_extract_overlap_givens(center9, corner) ==
    LET sr0 == OverlapInCenter(corner)[1]
        sc0 == OverlapInCenter(corner)[2]
        pr0 == OverlapInCorner(corner)[1]
        pc0 == OverlapInCorner(corner)[2]
    IN  [k \in 1 .. (Box * Box) |->
            LET dr == (k - 1) \div Box
                dc == (k - 1) % Box
            IN  <<pr0 + dr, pc0 + dc, center9[sr0 + dr][sc0 + dc] - 1>>]

\* generator._embed on the value of a grid.
_embed(board9, g, r0, c0) ==
    [r \in Canvas |-> [c \in Canvas |->
        IF in_board(r, c, r0, c0) THEN board9[r - r0][c - c0] ELSE g[r][c]]]


\* ------------------------------------------------------------------- state
VARIABLES
    pc,              \* position: start, solve, embed, dig_start, dig, verify, done, raised, returned
    rng,             \* the random source passed in (random.Random)
    seed0,           \* the state rng had at the call
    grand,           \* the module-level generator of random (solver.py uses it)
    difficulty,      \* arguments of generate_samurai
    uniq_timeout_s,
    adapt,
    cur,             \* the board solve_random is solving: C, TL, TR, BL, BR; ONE when called alone
    givens,          \* solve_random's givens
    m,               \* solve_random's matrix: rows_for_col, active_rows, active_cols
    solution,        \* solve_random's solution: the rids chosen
    boards,          \* the boards solve_random returned, by name, and how: primary, scratch
    heap,            \* the row lists allocated: a grid is a list of references to them
    solved,          \* generate_samurai's solved: references into heap
    puzzle,          \* the digger's puzzle: references into heap
    built,           \* the value of the grid _solve_samurai_by_composition returned
    actives,         \* the digger's shuffled cell list
    idx,             \* position of the digger's loop in actives (1-based)
    target,          \* target_clues of the running dig
    attempt,         \* generate_samurai's loop counter
    digs,            \* dig passes started so far: [verified, fallback]
    mode,            \* the running dig: verified (inside the loop) or fallback
    last,            \* what the last dig step did
    run,             \* which of two successive calls is running
    first,           \* the pair the first call returned
    arg              \* solve_unique called alone: its arguments as passed

vars == <<pc, rng, seed0, grand, difficulty, uniq_timeout_s, adapt, cur, givens, m,
          solution, boards, heap, solved, puzzle, built, actives, idx, target,
          attempt, digs, mode, last, run, first, arg>>

\* A grid's value: row r is the row list its r-th reference names.
GridVal(h, refs) == [r \in Canvas |-> h[refs[r + 1]]]

\* str.lower() on the difficulty names the calls are made with.
DifficultyInputs == {"easy", "medium", "hard", "evil", "EASY", "extreme", ""}
lower(name) ==
    CASE name = "EASY" -> "easy"
      [] OTHER -> name

\* uniq_timeout_s in ticks: 0 is below every check, MaxElapsed above none.
Timeouts == 0 .. MaxElapsed

NoMatrix == [rows_for_col |-> << >>, active_rows |-> {}, active_cols |-> {}]
NoLast == [kind |-> "none"]
NoArg == [g |-> << >>, limit_solutions |-> 0]

\* solve_random up to its main loop, for the board named name.
StartSolve(name, gs) ==
    /\ cur' = name
    /\ givens' = gs
    /\ m' = MatrixAfterGivens(gs)
    /\ solution' = GivenRids(gs)

\* Before the call: no board solved, no grid built, no pass made.
NothingDone ==
    /\ cur = "none"
    /\ givens = << >>
    /\ m = NoMatrix
    /\ solution = << >>
    /\ boards = << >>
    /\ heap = << >>
    /\ solved = << >>
    /\ puzzle = << >>
    /\ built = << >>
    /\ actives = << >>
    /\ idx = 0
    /\ target = 0
    /\ attempt = 0
    /\ digs = [verified |-> 0, fallback |-> 0]
    /\ mode = "verified"
    /\ last = NoLast
    /\ run = 1
    /\ first = << >>
    /\ arg = NoArg

Init ==
    /\ pc = "start"
    /\ rng \in 0 .. (NumSeeds - 1)
    /\ seed0 = rng
    /\ grand \in 0 .. (NumOrders - 1)
    /\ difficulty \in DifficultyInputs
    /\ uniq_timeout_s \in Timeouts
    /\ adapt \in BOOLEAN
    /\ NothingDone


\* A call that takes every name for a key of DIFFICULTY_CLUES.
any_name_is_key == TRUE

\* Line 98: the lower-cased name is a key of DIFFICULTY_CLUES.
ValidDifficulty == lower(difficulty) \in SeqRange(DIFFICULTY_NAMES)
\* The target of the evil puzzles, whatever the difficulty asked for.
evil_target == DIFFICULTY_CLUES("evil")

\* Line 100.
base_target == DIFFICULTY_CLUES(lower(difficulty))

\* generate_samurai, lines 97-99: the difficulty is not a key: ValueError.
RaiseInvalid ==
    /\ pc = "start"
    /\ ~ValidDifficulty
    /\ pc' = "raised"
    /\ UNCHANGED <<rng, seed0, grand, difficulty, uniq_timeout_s, adapt, cur, givens,
                   m, solution, boards, heap, solved, puzzle, built, actives, idx,
                   target, attempt, digs, mode, last, run, first, arg>>

\* generate_samurai, lines 100-103, into _solve_samurai_by_composition: the
\* centre board is solved first, without givens.
Begin ==
    /\ pc = "start"
    /\ ValidDifficulty
    /\ pc' = "solve"
    /\ StartSolve("C", << >>)
    /\ UNCHANGED <<rng, seed0, grand, difficulty, uniq_timeout_s, adapt, boards, heap,
                   solved, puzzle, built, actives, idx, target, attempt, digs, mode,
                   last, run, first, arg>>

\* The order _solve_samurai_by_composition solves the boards in.
NextBoard(name) ==
    CASE name = "C" -> "TL"
      [] name = "TL" -> "TR"
      [] name = "TR" -> "BL"
      [] name = "BL" -> "BR"

\* solve_random returns board: the caller goes on with the next board, or
\* with the stitching after the last one.
Return(board, how) ==
    LET bs == (cur :> [board |-> board, how |-> how]) @@ boards
    IN  /\ boards' = bs
        /\ IF cur = "ONE"
           THEN /\ pc' = "returned"
                /\ UNCHANGED <<cur, givens, m, solution>>
           ELSE IF cur = "BR"
           THEN /\ pc' = "embed"
                /\ UNCHANGED <<cur, givens, m, solution>>
           ELSE /\ pc' = "solve"
                /\ StartSolve(NextBoard(cur),
                              _extract_overlap_givens(bs["C"].board, NextBoard(cur)))

Stuck == choose_col(m) = -1 \/ m.rows_for_col[choose_col(m)] = {}

\* The primary loop's way out when the chosen column has no row left (or no
\* column is chosen): return _solve_from_scratch(rng, givens), whose result
\* is res; its assertion raises when the fill fails.
ScratchReturn(res) ==
    /\ rng' = res.s
    /\ IF res.ok
       THEN Return(res.board, "scratch")
       ELSE /\ pc' = "raised"
            /\ UNCHANGED <<cur, givens, m, solution, boards>>

\* The row a turn of the main loop selects: its columns are covered.
SelectRow(sh) ==
    /\ m' = CoverRow(m, sh.x[1])
    /\ solution' = Append(solution, sh.x[1])
    /\ rng' = sh.s
    /\ UNCHANGED <<pc, cur, givens, boards>>

\* One turn of solve_random's main loop with columns left: the rows of the
\* chosen column are shuffled and the first one is selected; a column
\* without rows sends the call to _solve_from_scratch.
DlxSelect ==
    /\ pc = "solve"
    /\ m.active_cols # {}
    /\ IF Stuck
       THEN ScratchReturn(_solve_from_scratch(rng, givens))
       ELSE SelectRow(Shuffle(SetToSeq(m.rows_for_col[choose_col(m)]), rng))
    /\ UNCHANGED <<seed0, grand, difficulty, uniq_timeout_s, adapt, heap, solved,
                   puzzle, built, actives, idx, target, attempt, digs, mode, last,
                   run, first, arg>>

\* The main loop ends with every column covered: the solution is decoded.
DlxDecode ==
    /\ pc = "solve"
    /\ m.active_cols = {}
    /\ Return(Decode(solution), "primary")
    /\ UNCHANGED <<rng, seed0, grand, difficulty, uniq_timeout_s, adapt, heap, solved,
                   puzzle, built, actives, idx, target, attempt, digs, mode, last,
                   run, first, arg>>

\* The order _solve_samurai_by_composition embeds the boards in.
EmbedOrder == <<"TL", "TR", "C", "BL", "BR">>
Origin(name) ==
    LET i == CHOOSE k \in 1 .. Len(BOARDS) : BOARDS[k][1] = name
    IN  <<BOARDS[i][2], BOARDS[i][3]>>

RECURSIVE EmbedAll(_, _, _, _)
EmbedAll(bs, order, g, k) ==
    IF k > Len(order) THEN g
    ELSE EmbedAll(bs, order,
                  _embed(bs[order[k]].board, g, Origin(order[k])[1], Origin(order[k])[2]),
                  k + 1)

\* _solve_samurai_by_composition, lines 54 and 63-68, and generate_samurai,
\* line 106: g's rows are the first rows allocated.
Embed ==
    /\ pc = "embed"
    /\ LET g == EmbedAll(boards, EmbedOrder, empty_samurai_grid, 1)
       IN  /\ heap' = [k \in 1 .. BOARD_SIZE |-> g[k - 1]]
           /\ solved' = [k \in 1 .. BOARD_SIZE |-> k]
           /\ built' = g
    /\ target' = base_target
    /\ attempt' = 0
    /\ mode' = "verified"
    /\ pc' = "dig_start"
    /\ UNCHANGED <<rng, seed0, grand, difficulty, uniq_timeout_s, adapt, cur, givens,
                   m, solution, boards, puzzle, actives, idx, digs, last, run,
                   first, arg>>


\* ---------------------------------------------------------- generator: dig
\* puzzle = solved: the puzzle names the rows of the solution themselves.
\* _dig_holes_to_target, line 73: puzzle = [row[:] for row in solved]: a new
\* row list per row.  The rows of the puzzle of the pass before are garbage
\* by now; the new ones take their place after the solution's.
same_rows(h, refs) == [heap |-> h, refs |-> refs]

dig_copy(h, refs) ==
    [heap |-> SubSeq(h, 1, BOARD_SIZE) \o [k \in 1 .. BOARD_SIZE |-> h[refs[k]]],
     refs |-> [k \in 1 .. BOARD_SIZE |-> BOARD_SIZE + k]]

\* puzzle[r][c] = v: a write to the row list the r-th reference names.
WriteCell(h, refs, r, c, v) == [h EXCEPT ![refs[r + 1]][c] = v]

count_clues(g, cells) ==
    Cardinality({k \in 1 .. Len(cells) : g[cells[k][1]][cells[k][2]] # None})

\* _dig_holes_to_target, lines 73-75.
DigStart ==
    /\ pc = "dig_start"
    /\ LET cp == dig_copy(heap, solved)
           sh == Shuffle(active_cells, rng)
       IN  /\ heap' = cp.heap
           /\ puzzle' = cp.refs
           /\ actives' = sh.x
           /\ rng' = sh.s
    /\ idx' = 1
    /\ digs' = [digs EXCEPT ![mode] = @ + 1]
    /\ last' = NoLast
    /\ pc' = "dig"
    /\ UNCHANGED <<seed0, grand, difficulty, uniq_timeout_s, adapt, cur, givens, m,
                   solution, boards, solved, built, target, attempt, mode, run,
                   first, arg>>

\* A loop that ends only when the list of cells is used up.
list_used_up == idx > Len(actives)

\* Lines 80-82: no cell is left, or the count has come down to the target.
DigLoopEnds ==
    idx > Len(actives) \/ count_clues(GridVal(heap, puzzle), actives) <= target

\* The ticks the uniqueness check of this turn may take.
Elapsed == IF idx <= MaxLate THEN 1 .. MaxElapsed ELSE {1}

\* A loop that stays on the cell it has just attempted.
same_position(i) == i

\* The loop of line 80 moves on to the next cell of actives.
next_position(i) == i + 1

\* The digit after v, where line 91 writes v back.
digit_after(v) == (v % N) + 1

\* The value line 91 writes back.
restored_value(v) == v

\* A test that looks at the answer only, not at the time it took.
not_unique_only(elapsed, res) == ~res.has \/ res.nsol # 1

\* The test of line 90: the check ran over the timeout, or did not answer
\* (True, 1).
must_restore(elapsed, res) ==
    elapsed > uniq_timeout_s \/ (~res.has \/ res.nsol # 1)

\* One turn of the loop of lines 80-91 on the cell actives[idx].
DigStep ==
    /\ pc = "dig"
    /\ ~DigLoopEnds
    /\ LET r == actives[idx][1]
           c == actives[idx][2]
           v == heap[puzzle[r + 1]][c]
       IN  IF v = None
           THEN /\ last' = [kind |-> "skipped", r |-> r, c |-> c]
                /\ UNCHANGED <<heap, grand>>
           ELSE LET cleared == WriteCell(heap, puzzle, r, c, None)
                    res == solve_unique(GridVal(cleared, puzzle), 2, grand)
                IN  \E elapsed \in Elapsed :
                      LET restore == must_restore(elapsed, res)
                      IN  /\ heap' = IF restore
                                     THEN WriteCell(cleared, puzzle, r, c, restored_value(v))
                                     ELSE cleared
                          /\ grand' = res.s
                          /\ last' = [kind |-> IF restore THEN "restored" ELSE "cleared",
                                      r |-> r, c |-> c, v |-> v, has |-> res.has,
                                      nsol |-> res.nsol,
                                      timed_out |-> elapsed > uniq_timeout_s]
    /\ idx' = next_position(idx)
    /\ UNCHANGED <<pc, rng, seed0, difficulty, uniq_timeout_s, adapt, cur, givens, m,
                   solution, boards, solved, puzzle, built, actives, target, attempt,
                   digs, mode, run, first, arg>>

\* The loop is over (line 82's break, or the list is exhausted): line 92
\* returns the puzzle, to line 109 from a dig of the loop and to line 118
\* from the fallback dig.
DigReturn ==
    /\ pc = "dig"
    /\ DigLoopEnds
    /\ pc' = IF mode = "fallback" THEN "done" ELSE "verify"
    /\ UNCHANGED <<rng, seed0, grand, difficulty, uniq_timeout_s, adapt, cur, givens,
                   m, solution, boards, heap, solved, puzzle, built, actives, idx,
                   target, attempt, digs, mode, last, run, first, arg>>

Max(a, b) == IF a >= b THEN a ELSE b

\* generate_samurai, lines 109-117: the check of the dug puzzle; return it,
\* or dig again with ten more clues, or leave the loop for the fallback dig.
Verify ==
    /\ pc = "verify"
    /\ LET res == solve_unique(GridVal(heap, puzzle), 2, grand)
           fall == /\ pc' = "dig_start"
                   /\ mode' = "fallback"
                   /\ target' = Max(base_target, Scaled(FallbackClues))
                   /\ UNCHANGED attempt
       IN  /\ grand' = res.s
           /\ IF res.has /\ res.nsol = 1
              THEN /\ pc' = "done"
                   /\ UNCHANGED <<target, attempt, mode>>
              ELSE IF ~adapt
              THEN fall
              ELSE IF attempt + 1 < MaxAttempts
              THEN /\ pc' = "dig_start"
                   /\ target' = target + Scaled(TargetStep)
                   /\ attempt' = attempt + 1
                   /\ UNCHANGED mode
              ELSE fall
    /\ UNCHANGED <<rng, seed0, difficulty, uniq_timeout_s, adapt, cur, givens, m,
                   solution, boards, heap, solved, puzzle, built, actives, idx, digs,
                   last, run, first, arg>>

Next ==
    \/ RaiseInvalid
    \/ Begin
    \/ DlxSelect
    \/ DlxDecode
    \/ Embed
    \/ DigStart
    \/ DigStep
    \/ DigReturn
    \/ Verify

Spec == Init /\ [][Next]_vars


\* ------------------------------------------- generate_samurai called twice
\* The second call: the caller passes a random source in the state the first
\* call started from, and the same arguments.  The module-level generator
\* goes on from where the first call left it.
Rerun ==
    /\ pc = "done"
    /\ run = 1
    /\ run' = 2
    /\ first' = <<GridVal(heap, puzzle), GridVal(heap, solved)>>
    /\ rng' = seed0
    /\ pc' = "start"
    /\ cur' = "none"
    /\ givens' = << >>
    /\ m' = NoMatrix
    /\ solution' = << >>
    /\ boards' = << >>
    /\ heap' = << >>
    /\ solved' = << >>
    /\ puzzle' = << >>
    /\ built' = << >>
    /\ actives' = << >>
    /\ idx' = 0
    /\ target' = 0
    /\ attempt' = 0
    /\ digs' = [verified |-> 0, fallback |-> 0]
    /\ mode' = "verified"
    /\ last' = NoLast
    /\ UNCHANGED <<seed0, grand, difficulty, uniq_timeout_s, adapt, arg>>

InitTwin ==
    /\ pc = "start"
    /\ rng \in 0 .. (NumSeeds - 1)
    /\ seed0 = rng
    /\ grand \in 0 .. (NumOrders - 1)
    /\ difficulty \in {"easy", "evil"}
    /\ uniq_timeout_s \in Timeouts
    /\ adapt = TRUE
    /\ NothingDone

NextTwin ==
    \/ Begin
    \/ DlxSelect
    \/ DlxDecode
    \/ Embed
    \/ DigStart
    \/ DigStep
    \/ DigReturn
    \/ Verify
    \/ Rerun

SpecTwin == InitTwin /\ [][NextTwin]_vars


\* ----------------------------------- _solve_samurai_by_composition alone
\* generate_samurai up to line 103, from more states of the random source.
InitCompose ==
    /\ pc = "start"
    /\ rng \in 0 .. (NumSolveSeeds - 1)
    /\ seed0 = rng
    /\ grand = 0
    /\ difficulty = "easy"
    /\ uniq_timeout_s = 0
    /\ adapt = TRUE
    /\ NothingDone

NextCompose ==
    \/ Begin
    \/ DlxSelect
    \/ DlxDecode
    \/ Embed

SpecCompose == InitCompose /\ [][NextCompose]_vars


\* ------------------------------------------------- solve_random called alone
\* The givens that fill the box at (pr0, pc0) of a board with the digits p.
BoxGivens(pr0, pc0, p) ==
    [k \in 1 .. N |-> <<pr0 + ((k - 1) \div Box), pc0 + ((k - 1) % Box), p[k] - 1>>]

CornerNames == {"TL", "TR", "BL", "BR"}

\* No givens, or one corner box filled with the N digits in any order.
GivensInputs ==
    {<< >>} \cup
    {BoxGivens(OverlapInCorner(corner)[1], OverlapInCorner(corner)[2], p) :
        corner \in CornerNames, p \in Permutations(1 .. N)}

\* A call starts in solve_random ("solve") or, for the fill the primary loop
\* falls back on, in _solve_from_scratch itself ("scratch") with the random
\* source in the state the loop left it in, which may be any.
InitSolve ==
    /\ pc \in {"solve", "scratch"}
    /\ rng \in 0 .. (NumSolveSeeds - 1)
    /\ seed0 = rng
    /\ grand = 0
    /\ difficulty = "easy"
    /\ uniq_timeout_s = 0
    /\ adapt = TRUE
    /\ cur = "ONE"
    /\ givens \in GivensInputs
    /\ m = IF pc = "solve" THEN MatrixAfterGivens(givens) ELSE NoMatrix
    /\ solution = IF pc = "solve" THEN GivenRids(givens) ELSE << >>
    /\ boards = << >>
    /\ heap = << >>
    /\ solved = << >>
    /\ puzzle = << >>
    /\ built = << >>
    /\ actives = << >>
    /\ idx = 0
    /\ target = 0
    /\ attempt = 0
    /\ digs = [verified |-> 0, fallback |-> 0]
    /\ mode = "verified"
    /\ last = NoLast
    /\ run = 1
    /\ first = << >>
    /\ arg = NoArg

\* _solve_from_scratch(rng, givens), lines 144-166.
FromScratch ==
    /\ pc = "scratch"
    /\ ScratchReturn(_solve_from_scratch(rng, givens))
    /\ UNCHANGED <<seed0, grand, difficulty, uniq_timeout_s, adapt, heap, solved,
                   puzzle, built, actives, idx, target, attempt, digs, mode, last,
                   run, first, arg>>

NextSolve ==
    \/ DlxSelect
    \/ DlxDecode
    \/ FromScratch

SpecSolve == InitSolve /\ [][NextSolve]_vars


\* ------------------------------------------------- solve_unique called alone
\* A solved canvas: the cell (r, c) holds Box*(r mod Box) + r div Box + c,
\* taken mod N, plus 1, which is a valid Sudoku in each of the five boards
\* (their origins are multiples of Box).
PatternGrid ==
    [r \in Canvas |-> [c \in Canvas |->
        IF is_active_cell(r, c)
        THEN ((Box * (r % Box) + (r \div Box) + c) % N) + 1
        ELSE None]]

\* PatternGrid with the len active cells after the a-th emptied and, when
\* d # 0, the cell after them set to d.
Holed(a, len, d) ==
    [r \in Canvas |-> [c \in Canvas |->
        IF \E i \in (a + 1) .. (a + len) : active_cells[i] = <<r, c>>
        THEN None
        ELSE IF d # 0 /\ active_cells[a + len + 1] = <<r, c>>
        THEN d
        ELSE PatternGrid[r][c]]]

\* No filled cell of g breaks a constraint of a board covering it.
Consistent(g) ==
    \A i \in 1 .. Len(active_cells) :
        g[active_cells[i][1]][active_cells[i][2]] # None =>
            is_valid_assignment(g, active_cells[i][1], active_cells[i][2],
                                g[active_cells[i][1]][active_cells[i][2]])

UniqueInputs ==
    {g \in {Holed(a, len, d) : a \in 0 .. (Len(active_cells) - MaxRun - 1),
                               len \in 0 .. MaxRun, d \in 0 .. N} :
        Consistent(g)}

InitUnique ==
    /\ pc = "unique"
    /\ rng = 0
    /\ seed0 = 0
    /\ grand \in 0 .. (NumShuffles - 1)
    /\ difficulty = "easy"
    /\ uniq_timeout_s = 0
    /\ adapt = TRUE
    /\ cur = "none"
    /\ givens = << >>
    /\ m = NoMatrix
    /\ solution = << >>
    /\ boards = << >>
    /\ \E g \in UniqueInputs, limit \in 1 .. MaxLimit :
          /\ arg = [g |-> g, limit_solutions |-> limit]
          /\ heap = [k \in 1 .. BOARD_SIZE |-> g[k - 1]]
    /\ solved = << >>
    /\ puzzle = [k \in 1 .. BOARD_SIZE |-> k]
    /\ built = << >>
    /\ actives = << >>
    /\ idx = 0
    /\ target = 0
    /\ attempt = 0
    /\ digs = [verified |-> 0, fallback |-> 0]
    /\ mode = "verified"
    /\ last = NoLast
    /\ run = 1
    /\ first = << >>

\* What the call leaves: the answer, the grid it worked on in place, and the
\* module-level generator.
UniqueReturn(res) ==
    /\ last' = [kind |-> "solve_unique", has |-> res.has, nsol |-> res.nsol]
    /\ heap' = [k \in 1 .. BOARD_SIZE |-> res.g[k - 1]]
    /\ grand' = res.s

\* solve_unique(g, limit_solutions) on the grid the rows of puzzle make up.
CallSolveUnique ==
    /\ pc = "unique"
    /\ UniqueReturn(solve_unique(GridVal(heap, puzzle), arg.limit_solutions, grand))
    /\ pc' = "unique_done"
    /\ UNCHANGED <<rng, seed0, difficulty, uniq_timeout_s, adapt, cur, givens, m,
                   solution, boards, solved, puzzle, built, actives, idx, target,
                   attempt, digs, mode, run, first, arg>>

NextUnique == CallSolveUnique

SpecUnique == InitUnique /\ [][NextUnique]_vars


\* ----------------------------------------- _dig_holes_to_target on its own
\* The targets the digger is called with: none to reach, a third of the
\* cells, one below the full count, and the full count.
DigTargetInputs ==
    {0, Len(active_cells) \div 3, Len(active_cells) - 1, Len(active_cells)}

\* _dig_holes_to_target(rng, solved, target_clues, uniq_timeout_s) called on
\* a solved grid.
InitDig ==
    /\ pc = "dig_start"
    /\ rng \in 0 .. (NumDigSeeds - 1)
    /\ seed0 = rng
    /\ grand = 0
    /\ difficulty = "easy"
    /\ uniq_timeout_s \in Timeouts
    /\ adapt = TRUE
    /\ cur = "none"
    /\ givens = << >>
    /\ m = NoMatrix
    /\ solution = << >>
    /\ boards = << >>
    /\ heap = [k \in 1 .. BOARD_SIZE |-> PatternGrid[k - 1]]
    /\ solved = [k \in 1 .. BOARD_SIZE |-> k]
    /\ puzzle = << >>
    /\ built = PatternGrid
    /\ actives = << >>
    /\ idx = 0
    /\ target \in DigTargetInputs
    /\ attempt = 0
    /\ digs = [verified |-> 0, fallback |-> 0]
    /\ mode = "verified"
    /\ last = NoLast
    /\ run = 1
    /\ first = << >>
    /\ arg = NoArg

NextDig ==
    \/ DigStart
    \/ DigStep
    \/ DigReturn

SpecDig == InitDig /\ [][NextDig]_vars


\* --------------------------------------------- find_next_cell on its own
\* The empty grid with the len active cells after the a-th filled as in
\* PatternGrid.
Kept(a, len) ==
    [r \in Canvas |-> [c \in Canvas |->
        IF \E i \in (a + 1) .. (a + len) : active_cells[i] = <<r, c>>
        THEN PatternGrid[r][c]
        ELSE None]]

\* find_next_cell(g) called on the grids solve_unique is called with, and on
\* grids with a few cells filled, as the search meets them.
NextInputs ==
    UniqueInputs
        \cup {Kept(a, len) : a \in 0 .. (Len(active_cells) - MaxKept),
                             len \in 0 .. MaxKept}

InitNext ==
    /\ pc = "next"
    /\ rng = 0
    /\ seed0 = 0
    /\ grand = 0
    /\ difficulty = "easy"
    /\ uniq_timeout_s = 0
    /\ adapt = TRUE
    /\ cur = "none"
    /\ givens = << >>
    /\ m = NoMatrix
    /\ solution = << >>
    /\ boards = << >>
    /\ heap = << >>
    /\ solved = << >>
    /\ puzzle = << >>
    /\ built = << >>
    /\ actives = << >>
    /\ idx = 0
    /\ target = 0
    /\ attempt = 0
    /\ digs = [verified |-> 0, fallback |-> 0]
    /\ mode = "verified"
    /\ last = NoLast
    /\ run = 1
    /\ first = << >>
    /\ \E g \in NextInputs : arg = [g |-> g, limit_solutions |-> 0]

\* What the call returns: None (found false) or (r, c, cand).
NextReturn(nxt) ==
    last' = [kind |-> "find_next_cell", found |-> nxt.found, r |-> nxt.r,
             c |-> nxt.c, cand |-> nxt.cand]

CallFindNext ==
    /\ pc = "next"
    /\ NextReturn(find_next_cell(arg.g))
    /\ pc' = "next_done"
    /\ UNCHANGED <<rng, seed0, grand, difficulty, uniq_timeout_s, adapt, cur, givens,
                   m, solution, boards, heap, solved, puzzle, built, actives, idx,
                   target, attempt, digs, mode, run, first, arg>>

NextFind == CallFindNext

SpecNext == InitNext /\ [][NextFind]_vars


\* ------------------------------------------------------------ the claims
\* The value grids generate_samurai returns at line 111 or 118.
ReturnedPuzzle == GridVal(heap, puzzle)
ReturnedSolution == GridVal(heap, solved)

Holes(g) == Len(active_cells) - count_clues(g, active_cells)

\* solve_unique's answer is (true, 1).
TrueOne(res) == res.has /\ res.nsol = 1

\* The completions of g, counted up to cap, by filling the empty active cells
\* in row-major order with every digit that no row, column or box of a
\* covering board holds yet.  Fits is the constraint of the five boards.
Fits(g, r, c, d) == \A p \in ReadCells[r][c] \ {<<r, c>>} : g[p[1]][p[2]] # d

\* The count is kept by a search of its own: cells are the empty active cells
\* of the grid, k the one being filled, and a cell's digits are tried in
\* ascending order.
CountStart(g, cap) ==
    [g |-> g, k |-> 1, count |-> 0, cap |-> cap, halted |-> FALSE,
     cells |-> SelectSeq(active_cells, LAMBDA p : g[p[1]][p[2]] = None)]

\* The cell p takes the least of the digits ds, which are those above its
\* present one that fit, and the search moves on; with none it is emptied and
\* the search moves back.
CountAdvance(C, p, ds) ==
    IF ds = {}
    THEN [C EXCEPT !.g[p[1]][p[2]] = None, !.k = @ - 1]
    ELSE [C EXCEPT !.g[p[1]][p[2]] = SetMin(ds), !.k = @ + 1]

CountAt(C, p) ==
    CountAdvance(C, p, {d \in (C.g[p[1]][p[2]] + 1) .. N : Fits(C.g, p[1], p[2], d)})

CountStep(C) ==
    IF C.k = 0 THEN [C EXCEPT !.halted = TRUE]
    ELSE IF C.k > Len(C.cells)
    THEN [C EXCEPT !.count = @ + 1, !.k = Len(C.cells),
                   !.halted = (C.count + 1 >= C.cap)]
    ELSE CountAt(C, C.cells[C.k])

RECURSIVE CountRun(_, _)
CountRun(C, k) ==
    IF C.halted THEN C
    ELSE IF k = 0 THEN CountStep(C)
    ELSE CountRun(CountRun(C, k - 1), k - 1)

CountResult(C) == IF C.halted THEN C.count ELSE CHOOSE unfinished \in {} : TRUE

CompletionsUpTo(g, cap) == CountResult(CountRun(CountStart(g, cap), CountBits))

\* C1: every puzzle generate_samurai returns, after a successful check of the
\* dug puzzle or from the fallback dig, has exactly one completion under the
\* constraints of the five boards, and solve_unique(puzzle, 2) answers
\* (true, 1), whatever order the candidates are shuffled into.
C1_ReturnedPuzzleUnique ==
    pc = "done" =>
        /\ CompletionsUpTo(ReturnedPuzzle, 2) = 1
        /\ \A s \in 0 .. (NumOrders - 1) :
              TrueOne(solve_unique(ReturnedPuzzle, 2, s))

\* A puzzle with holes is returned.
C1_Witness == pc = "done" /\ Holes(ReturnedPuzzle) > 0

\* The board at (r0, c0) of the canvas grid g.
BoardOf(g, r0, c0) == [r \in Idx |-> [c \in Idx |-> g[r0 + r][c0 + c]]]

\* Every row, column and box of the board b holds each digit exactly once.
SudokuOK(b) ==
    /\ \A r \in Idx : {b[r][c] : c \in Idx} = Digits
    /\ \A c \in Idx : {b[r][c] : r \in Idx} = Digits
    /\ \A br, bc \in 0 .. (Box - 1) :
          {b[br * Box + i][bc * Box + j] : i, j \in 0 .. (Box - 1)} = Digits

\* The five boards in the order p puts the stitching order into.
Reordered(p) == [k \in 1 .. Len(EmbedOrder) |-> p[EmbedOrder[k]]]

\* C2: the grid _solve_samurai_by_composition returns has a digit in every
\* active cell; each of the five boards in it is a valid Sudoku; every cell,
\* the shared ones included, holds the value each board covering it was
\* solved to; and stitching the boards in any other order gives the same grid.
C2_ComposedGridValid ==
    pc = "dig_start" =>
        /\ \A i \in 1 .. Len(active_cells) :
              built[active_cells[i][1]][active_cells[i][2]] \in Digits
        /\ \A k \in 1 .. Len(BOARDS) :
              SudokuOK(BoardOf(built, BOARDS[k][2], BOARDS[k][3]))
        /\ \A k \in 1 .. Len(BOARDS) : \A r, c \in Canvas :
              in_board(r, c, BOARDS[k][2], BOARDS[k][3]) =>
                  built[r][c]
                    = boards[BOARDS[k][1]].board[r - BOARDS[k][2]][c - BOARDS[k][3]]
        /\ \A p \in Permutations(SeqRange(EmbedOrder)) :
              EmbedAll(boards, Reordered(p), empty_samurai_grid, 1) = built

\* A grid has been composed from boards that differ from one another.
C2_Witness ==
    /\ pc = "dig_start"
    /\ digs["verified"] = 0
    /\ boards["TL"].board # boards["C"].board
    /\ boards["BR"].board # boards["BL"].board

\* The board solve_random returned to its caller.
ReturnedBoard == boards["ONE"].board

\* C3: called with no givens or with one corner box filled with distinct
\* digits, solve_random never fails its fallback's assertion, and the board it
\* returns, by the covering loop or by _solve_from_scratch, is a valid Sudoku
\* that holds every given digit in its cell.
C3_SolveRandomValid ==
    /\ pc # "raised"
    /\ pc = "returned" =>
          /\ SudokuOK(ReturnedBoard)
          /\ \A k \in 1 .. Len(givens) :
                ReturnedBoard[givens[k][1]][givens[k][2]] = givens[k][3] + 1

\* _solve_from_scratch has filled a board around a given box.
C3_Witness ==
    /\ pc = "returned"
    /\ boards["ONE"].how = "scratch"
    /\ givens # << >>

Min(a, b) == IF a <= b THEN a ELSE b

\* C4: on a grid whose filled cells break no constraint, solve_unique with
\* limit L >= 1 answers (n > 0, min(n, L)), n being the number of completions
\* that satisfy every board, from every state of the generator that orders
\* the candidates; a full grid gets (true, 1).
C4_SolveUniqueCounts ==
    pc = "unique_done" =>
        /\ last.has = (CompletionsUpTo(arg.g, 1) > 0)
        /\ last.nsol = Min(CompletionsUpTo(arg.g, arg.limit_solutions + 1),
                           arg.limit_solutions)
        /\ Holes(arg.g) = 0 => (last.has /\ last.nsol = 1)

\* A grid with more completions than the limit asks for has been counted.
C4_Witness ==
    /\ pc = "unique_done"
    /\ arg.limit_solutions >= 2
    /\ last.nsol = arg.limit_solutions
    /\ CompletionsUpTo(arg.g, arg.limit_solutions + 1) > arg.limit_solutions

\* The boards stitched by the first k calls of _embed.
EmbeddedFirst(k) == SubSeq(EmbedOrder, 1, k)
CoveredByFirst(k, r, c) ==
    \E j \in 1 .. k : in_board(r, c, Origin(EmbedOrder[j])[1], Origin(EmbedOrder[j])[2])

C6_SameResultTwice ==
    (pc = "done" /\ run = 2) => <<ReturnedPuzzle, ReturnedSolution>> = first

\* The second call has returned the first call's solution with another puzzle.
C6_Witness ==
    /\ pc = "done"
    /\ run = 2
    /\ ReturnedSolution = first[2]
    /\ ReturnedPuzzle # first[1]

\* What holds of the passes throughout a call.
C7_Bounded ==
    /\ ValidDifficulty => pc # "raised"
    /\ digs["verified"] <= MaxAttempts
    /\ digs["fallback"] <= 1
    /\ pc = "dig" =>
          /\ idx \in 1 .. (Len(actives) + 1)
          /\ \A i, j \in 1 .. Len(actives) : actives[i] = actives[j] => i = j
          /\ last.kind # "none" =>
                (idx >= 2 /\ <<last.r, last.c>> = actives[idx - 1])

\* The steps a call can still take are bounded by Rank: the boards left to
\* solve and the columns left to cover in the running one, then the passes
\* not yet started and the cells left in the running one.
PassLen == Len(active_cells) + 4
SolveLen == NumCols + 2
PassesLeft == (MaxAttempts + 1) - digs["verified"] - digs["fallback"]
DigBase == (MaxAttempts + 1) * PassLen + 1
BoardsAfter(name) ==
    CASE name = "C" -> 4
      [] name = "TL" -> 3
      [] name = "TR" -> 2
      [] name = "BL" -> 1
      [] name = "BR" -> 0

Rank ==
    CASE pc = "start" -> DigBase + 2 + Len(BOARDS) * SolveLen
      [] pc = "solve" ->
            DigBase + 2 + BoardsAfter(cur) * SolveLen + Cardinality(m.active_cols)
      [] pc = "embed" -> DigBase
      [] pc = "dig_start" -> PassesLeft * PassLen
      [] pc = "dig" -> PassesLeft * PassLen + (Len(actives) + 1 - idx) + 2
      [] pc = "verify" -> PassesLeft * PassLen + 1
      [] OTHER -> 0

\* C7: called with a valid difficulty, any timeout and either adapt setting,
\* generate_samurai never raises, starts at most three verified dig passes and
\* one fallback pass, and attempts in a pass the cells of a duplicate-free list
\* one after the other; every step it takes lowers Rank, a natural number, so
\* no call runs for ever.
C7_TerminatesWithinPasses ==
    /\ [](C7_Bounded /\ Rank \in Nat)
    /\ [][Rank' < Rank]_vars

\* A call for an evil puzzle has returned after a pass that went through
\* the whole list of cells.
C7_Witness ==
    /\ pc = "done"
    /\ lower(difficulty) = "evil"
    /\ digs["verified"] = 1
    /\ idx = Len(actives) + 1

\* C8: a call for an evil puzzle with a timeout that every uniqueness check
\* of the digger exceeds returns from the fallback dig, whose target is
\* max(base target, 210).
C8_TinyTimeoutReturnsFallback ==
    (pc = "done" /\ lower(difficulty) = "evil" /\ uniq_timeout_s = 0) =>
        /\ mode = "fallback"
        /\ digs["fallback"] = 1
        /\ target = Max(base_target, Scaled(FallbackClues))

\* Such a call has returned from the first pass of the loop, every removal
\* written back as timed out: the puzzle is the whole solution.
C8_Witness ==
    /\ pc = "done"
    /\ lower(difficulty) = "evil"
    /\ uniq_timeout_s = 0
    /\ mode = "verified"
    /\ attempt = 0
    /\ digs = [verified |-> 1, fallback |-> 0]
    /\ last.kind = "restored"
    /\ last.timed_out
    /\ ReturnedPuzzle = ReturnedSolution

\* The rows a list of references names.
RowsOf(refs) == {refs[k] : k \in 1 .. Len(refs)}

\* C9: from the moment the builder has produced the solution, through every
\* dig pass and check and at the return, the solution holds the builder's
\* values; the puzzle's rows are none of the solution's rows; and at the
\* return no write to a puzzle cell changes a value of the solution.
C9_SolutionNeverWritten ==
    pc \in {"dig_start", "dig", "verify", "done"} =>
        /\ GridVal(heap, solved) = built
        /\ RowsOf(puzzle) \cap RowsOf(solved) = {}
        /\ pc = "done" =>
              \A r \in Canvas : \A c \in Canvas : \A v \in {None} \cup Digits :
                  GridVal(WriteCell(heap, puzzle, r, c, v), solved) = built

\* A call has returned a puzzle with holes in it, the last of them made by
\* the last turn of the pass.
C9_Witness ==
    /\ pc = "done"
    /\ Holes(ReturnedPuzzle) > 0
    /\ last.kind = "cleared"
    /\ ReturnedPuzzle # ReturnedSolution
    /\ ReturnedSolution = built

\* The names of the four difficulties.
FourNames == {"easy", "medium", "hard", "evil"}

\* The call has raised, or is about to, and has done nothing else: the
\* random source is in the state it was called with and no board, grid or
\* pass exists.
RaisedFirst ==
    /\ pc \in {"start", "raised"}
    /\ pc = "start" => (ENABLED RaiseInvalid) /\ ~(ENABLED Begin)
    /\ rng = seed0
    /\ NothingDone

\* C10: a call whose difficulty, put in lower case, is none of easy, medium,
\* hard, evil raises before any search: the builder and the digger are never
\* entered, the random source keeps its state and no grid is produced.
C10_UnknownNameRaisesFirst ==
    lower(difficulty) \notin FourNames => RaisedFirst

\* A call with the name "extreme" has raised.
C10_Witness ==
    /\ pc = "raised"
    /\ difficulty = "extreme"
    /\ RaisedFirst

\* C10 as stated: a call whose difficulty is none of the names easy, medium,
\* hard, evil raises before any search.
C10_NameNotListedRaisesFirst ==
    difficulty \notin FourNames => RaisedFirst

\* The dug puzzle has exactly one completion.
Certified == CompletionsUpTo(ReturnedPuzzle, 2) = 1

\* The clue count asked of the k-th dig of the loop of line 107.
TargetOfAttempt(k) == DIFFICULTY_CLUES(lower(difficulty)) + k * Scaled(TargetStep)

\* The clue count asked of the fallback dig of line 117.
TargetOfFallback ==
    Max(DIFFICULTY_CLUES(lower(difficulty)), Scaled(FallbackClues))

\* A dig pass is entered with the puzzle equal to the builder's solution.
StartsFromSolution == pc' = "dig" => (GridVal(heap', puzzle') = built /\ idx' = 1)

C11_Step ==
    /\ (pc = "dig_start" /\ mode = "verified") =>
          /\ attempt \in 0 .. (MaxAttempts - 1)
          /\ digs["verified"] = attempt
          /\ target = TargetOfAttempt(attempt)
          /\ StartsFromSolution
    /\ (pc = "dig_start" /\ mode = "fallback") =>
          /\ digs["fallback"] = 0
          /\ target = TargetOfFallback
          /\ StartsFromSolution
    /\ pc = "verify" =>
          IF Certified
          THEN /\ pc' = "done"
               /\ mode' = "verified"
               /\ GridVal(heap', puzzle') = ReturnedPuzzle
               /\ GridVal(heap', solved') = built
          ELSE /\ pc' = "dig_start"
               /\ IF adapt /\ attempt + 1 < MaxAttempts
                  THEN mode' = "verified" /\ attempt' = attempt + 1
                  ELSE mode' = "fallback"
    /\ (pc = "dig" /\ mode = "fallback" /\ pc' # "dig") =>
          (pc' = "done" /\ GridVal(heap', puzzle') = ReturnedPuzzle)

\* C11: the k-th dig of the loop (k = 0, 1, 2) asks for base + 10k clues and
\* starts from the builder's solution; a dug puzzle with exactly one
\* completion is returned by the very next step, unchanged; after a failed
\* check with adapt off, or the third failed check with adapt on, one dig
\* with target max(base, 210) follows and its result is returned.
C11_DigsTargetsAndReturn == [][C11_Step]_vars

\* The first dig of the loop, asked for the base target of a hard puzzle, has
\* been checked and returned.
C11_Witness ==
    /\ pc = "done"
    /\ lower(difficulty) = "hard"
    /\ mode = "verified"
    /\ attempt = 0
    /\ target = TargetOfAttempt(0)
    /\ Certified
    /\ count_clues(ReturnedPuzzle, active_cells) = target

\* The turn of the dig loop on the cell (r, c), which held v: the cell ends
\* empty or with v again, empty exactly when the puzzle without it has one
\* completion and the check was in time; g is the puzzle before the turn.
TurnOn(g, r, c, v) ==
    /\ GridVal(heap', puzzle')[r][c] \in {None, v}
    /\ GridVal(heap', puzzle')[r][c] = None <=>
          (/\ CompletionsUpTo([g EXCEPT ![r][c] = None], 2) = 1
           /\ ~last'.timed_out)
    /\ GridVal(heap', puzzle') = [g EXCEPT ![r][c] = GridVal(heap', puzzle')[r][c]]
    /\ last'.kind = (IF GridVal(heap', puzzle')[r][c] = None
                     THEN "cleared" ELSE "restored")
    /\ idx' = idx + 1
    /\ pc' = "dig"

C12_Step ==
    (/\ pc = "dig"
     /\ ~DigLoopEnds
     /\ ReturnedPuzzle[actives[idx][1]][actives[idx][2]] # None) =>
        TurnOn(ReturnedPuzzle, actives[idx][1], actives[idx][2],
               ReturnedPuzzle[actives[idx][1]][actives[idx][2]])

\* C12: a turn of the dig loop on a filled cell leaves the cell empty if and
\* only if the puzzle with that cell emptied has exactly one completion and
\* the check did not run over the timeout; otherwise the cell holds its old
\* value again; either way no other cell changes and the loop moves on to
\* the next cell.
C12_ClearedIffUniqueInTime == [][C12_Step]_vars

\* A removal has been undone although its check was in time: the puzzle
\* without the cell had two completions or more.
C12_Witness ==
    /\ pc = "dig"
    /\ last.kind = "restored"
    /\ ~last.timed_out
    /\ last.nsol = 2
    /\ ReturnedPuzzle[last.r][last.c] = last.v
    /\ Holes(ReturnedPuzzle) > 0

\* The clues of the puzzle being dug.
ClueCount == count_clues(ReturnedPuzzle, active_cells)

\* During a pass and at its return the count is between the target and the
\* count of the solved grid; a pass that returns above the target has gone
\* through the whole list.
C13_Counts ==
    pc \in {"dig", "verify", "done"} =>
        /\ target <= ClueCount
        /\ ClueCount <= Len(active_cells)
        /\ (pc # "dig" /\ ClueCount > target) => idx = Len(actives) + 1
        /\ pc # "dig" => (ClueCount = target \/ idx = Len(actives) + 1)
        /\ {actives[i] : i \in 1 .. Len(actives)}
              = {active_cells[i] : i \in 1 .. Len(active_cells)}
        /\ Len(actives) = Len(active_cells)

\* A turn of the loop finds its cell filled, and a cell it leaves filled is
\* one whose removal it has undone; the cells of the turns to come are still
\* filled.
C13_Turn ==
    (pc = "dig" /\ ~DigLoopEnds) =>
        /\ ReturnedPuzzle[actives[idx][1]][actives[idx][2]] # None
        /\ last'.kind \in {"cleared", "restored"}
        /\ <<last'.r, last'.c>> = actives[idx]
        /\ GridVal(heap', puzzle')[actives[idx][1]][actives[idx][2]] # None
              => last'.kind = "restored"
        /\ \A i \in (idx + 1) .. Len(actives) :
              GridVal(heap', puzzle')[actives[i][1]][actives[i][2]] # None

\* C13: called on a solved grid with a target no greater than the count of
\* active cells, _dig_holes_to_target returns a puzzle with at least target
\* and at most all clues; the count never goes below the target; and a pass
\* that returns above the target has attempted every active cell once, each
\* cell still filled having had its removal undone.
C13_StopsAtTarget == [](C13_Counts) /\ [][C13_Turn]_vars

\* A pass asked for no clues at all has returned with clues left, after
\* emptying some cells.
C13_Witness ==
    /\ pc = "verify"
    /\ target = 0
    /\ ClueCount > target
    /\ Holes(ReturnedPuzzle) > 0
    /\ idx = Len(actives) + 1

\* The digits that fit the empty cell at position i of active_cells, and the
\* positions of the empty cells of the grid find_next_cell was called on.
FitsAt(i) ==
    {d \in Digits : Fits(arg.g, active_cells[i][1], active_cells[i][2], d)}

EmptyPositions ==
    {i \in 1 .. Len(active_cells) :
        arg.g[active_cells[i][1]][active_cells[i][2]] = None}

\* The positions of the empty cells with no candidate, and with one.
DeadPositions == {i \in EmptyPositions : FitsAt(i) = {}}
SinglePositions == {i \in EmptyPositions : Cardinality(FitsAt(i)) = 1}

\* The position in active_cells of the cell returned.
ReturnedPosition ==
    CHOOSE i \in 1 .. Len(active_cells) : active_cells[i] = <<last.r, last.c>>

\* The cell returned is an empty active cell and comes with exactly its
\* candidates, in ascending order.
ReturnedWithCandidates ==
    /\ \E i \in EmptyPositions : active_cells[i] = <<last.r, last.c>>
    /\ {last.cand[k] : k \in 1 .. Len(last.cand)} = FitsAt(ReturnedPosition)
    /\ \A j, k \in 1 .. Len(last.cand) : j < k => last.cand[j] < last.cand[k]

GridLeft == GridVal(heap, puzzle)

====
